---- MODULE Spec2Model ----
(***************************************************************************)
(* Model of modelscope/hub/repository.py: the two facades Repository and   *)
(* DatasetRepository over the GitCommandWrapper collaborator.              *)
(*                                                                         *)
(* Each facade method is one action.  The collaborator is the environment: *)
(* what it answers (directory listing, remote URL, saved token, lfs        *)
(* availability) and which of its operations raise GitError are inputs of  *)
(* the action.  The calls a method issues are recorded, in order, in       *)
(* `calls`; a call that raises ends the method unless the code catches it. *)
(***************************************************************************)
EXTENDS Integers, Sequences, FiniteSets, TLC

(* ----------------------------- bounds ---------------------------------- *)
\* collaborator operations that raise during one method: the constructor and
\* clone catch the GitError of the remote-URL query and go on, so one more
\* operation can raise after it; no method survives a second one
MaxFailures == 2

(* ------------------------- Python values -------------------------------- *)
PyNone == [type |-> "NoneType", val |-> ""]
PyStr(s) == [type |-> "str", val |-> s]
PyInt(s) == [type |-> "int", val |-> s]
PyBool(b) == [type |-> "bool", val |-> IF b THEN "True" ELSE "False"]

isinstance(v, t) == v.type = t

\* Python truth value of an Optional[str] / bool / int
Truthy(v) ==
    CASE v.type = "NoneType" -> FALSE
      [] v.type = "str" -> v.val # ""
      [] v.type = "bool" -> v.val = "True"
      [] OTHER -> v.val # "0"

(* A URL is a string kept as its sequence of pieces, so that building it   *)
(* and stripping a credential from it are computations on the pieces.      *)
UrlNone == [type |-> "NoneType", val |-> <<>>]
UrlStr(pieces) == [type |-> "str", val |-> pieces]
UrlTruthy(u) == u.type = "str" /\ u.val # <<>>

(* ----------------------------- inputs ----------------------------------- *)
Ids == {"org/m1", "org/m2"}         \* model / dataset identifiers
Revisions == {"r1", "r2"}           \* revisions and branches
Dir == <<"/data", "repo">>          \* <<dirname, basename>> of the local directory
dirname(d) == d[1]
basename(d) == d[2]

ArgTokens == {PyNone, PyStr(""), PyStr("tokA")}     \* auth_token argument
SavedTokens == {PyNone, PyStr("tokS")}              \* ModelScopeConfig.get_token()
Messages == {PyNone, PyStr(""), PyStr("fix"), PyInt("7")}
Forces == {PyBool(TRUE), PyBool(FALSE), PyStr("yes")}
DirStates == {"absent", "empty", "nonempty"}

get_endpoint == <<"https:", "//", "hub.example">>

(* ---------------------- the collaborator's answers ---------------------- *)
\* the credential piece a token-carrying remote URL holds after "//"
Credential(tok) == "oauth2:" \o tok \o "@"
CredentialPieces == {Credential(t) : t \in {"tokA", "tokS"}}

\* GitCommandWrapper.remove_token_from_url: None stays None, a URL loses its credential
remove_token_from_url(u) ==
    IF u.type = "NoneType" THEN u
    ELSE UrlStr(SelectSeq(u.val, LAMBDA piece : piece \notin CredentialPieces))

\* the same URL with a credential embedded, as a configured remote carries it
WithToken(u, tok) ==
    UrlStr(<<u.val[1], u.val[2], Credential(tok)>> \o SubSeq(u.val, 3, Len(u.val)))

(* --------------------------- URL computation ---------------------------- *)
\* Repository._get_model_id_url: f'{get_endpoint()}/{model_id}.git'
_get_model_id_url(model_id) == UrlStr(get_endpoint \o <<"/", model_id, ".git">>)

\* DatasetRepository._get_repo_url: f'{get_endpoint()}/datasets/{dataset_id}.git'
_get_repo_url(dataset_id) == UrlStr(get_endpoint \o <<"/datasets/", dataset_id, ".git">>)

\* what get_repo_remote_url may answer for the local directory of a model
\* repository and of a dataset repository: a hub URL, bare or with a credential,
\* or nothing
ModelRemotes ==
    {_get_model_id_url(i) : i \in Ids}
    \cup {WithToken(_get_model_id_url(i), "tokA") : i \in Ids} \cup {UrlStr(<<>>)}
DatasetRemotes ==
    {_get_repo_url(i) : i \in Ids}
    \cup {WithToken(_get_repo_url(i), "tokA") : i \in Ids} \cup {UrlStr(<<>>)}

\* the collaborator operations that may raise GitError
InitOps == {"get_repo_remote_url", "clone", "git_lfs_install", "add_user_info",
            "config_auth_token"}
CloneOps == {"get_repo_remote_url", "clone"}
PushOps == {"config_auth_token", "add_user_info", "get_repo_remote_url", "pull", "add",
            "commit", "push"}
Failing(ops) == {S \in SUBSET ops : Cardinality(S) <= MaxFailures}

(* ----------------------- collaborator invocations ----------------------- *)
is_lfs_installed == [op |-> "is_lfs_installed"]
git_lfs_install(repo_dir) == [op |-> "git_lfs_install", repo_dir |-> repo_dir]
get_repo_remote_url(repo_dir) == [op |-> "get_repo_remote_url", repo_dir |-> repo_dir]
clone(repo_base_dir, token, url, repo_name, branch) ==
    [op |-> "clone", repo_base_dir |-> repo_base_dir, token |-> token, url |-> url,
     repo_name |-> repo_name, branch |-> branch]
add_user_info(repo_base_dir, repo_name) ==
    [op |-> "add_user_info", repo_base_dir |-> repo_base_dir, repo_name |-> repo_name]
config_auth_token(repo_dir, auth_token) ==
    [op |-> "config_auth_token", repo_dir |-> repo_dir, auth_token |-> auth_token]
pull(repo_dir) == [op |-> "pull", repo_dir |-> repo_dir]
add(repo_dir, all_files) == [op |-> "add", repo_dir |-> repo_dir, all_files |-> all_files]
commit(repo_dir, message) == [op |-> "commit", repo_dir |-> repo_dir, message |-> message]
push(repo_dir, token, url, local_branch, remote_branch) ==
    [op |-> "push", repo_dir |-> repo_dir, token |-> token, url |-> url,
     local_branch |-> local_branch, remote_branch |-> remote_branch]

(* A straight-line run of statements: each invocation is made in turn; the  *)
(* first one that raises is the last one made, and its error leaves the     *)
(* method.  The result is the invocations made, each with whether it        *)
(* returned (ok) or raised.                                                 *)
FirstFailure(steps, failing) ==
    LET bad == {i \in 1..Len(steps) : steps[i].op \in failing}
    IN IF bad = {} THEN 0 ELSE CHOOSE i \in bad : \A j \in bad : i <= j

Exec_NoStop(steps, failing) ==
    [i \in 1..Len(steps) |-> [call |-> steps[i], ok |-> steps[i].op \notin failing]]

Exec(steps, failing) ==
    LET f == FirstFailure(steps, failing)
        n == IF f = 0 THEN Len(steps) ELSE f
    IN [i \in 1..n |-> [call |-> steps[i], ok |-> i # f]]

Raised(log) == \E i \in 1..Len(log) : ~log[i].ok
Outcome(log) == IF Raised(log) THEN "GitError" ELSE "None"

(* ------------------------------- state ---------------------------------- *)
VARIABLES
    repo,     \* the Repository object: its fields, or exists = FALSE before construction
    ds,       \* the DatasetRepository object, likewise
    fs,       \* the local directory on disk: "absent", "empty" or "nonempty"
    calls,    \* the collaborator invocations of the latest method, in order
    op        \* the latest method: its name, arguments, environment answers and outcome

vars == <<repo, ds, fs, calls, op>>

NoRepo == [exists |-> FALSE, model_dir |-> Dir, model_base_dir |-> "", model_repo_name |-> "",
           auth_token |-> PyNone]
NoDs == [exists |-> FALSE, dataset_id |-> "", repo_work_dir |-> Dir, repo_base_dir |-> "",
         repo_name |-> "", revision |-> "", auth_token |-> PyNone, repo_url |-> UrlNone]

\* os.makedirs(dir, exist_ok=True)
makedirs(state) == IF state = "absent" THEN "empty" ELSE state
\* os.listdir(dir) is non-empty
listdir(state) == state = "nonempty"
\* the directory after a method: a clone invocation that returned has filled it
after_clone(state, log) ==
    IF \E i \in 1..Len(log) : log[i].call.op = "clone" /\ log[i].ok
    THEN "nonempty" ELSE state

(* --------------------------- Repository --------------------------------- *)
\* Repository._get_remote_url: a GitError of the query becomes None
Repository_get_remote_url(env) ==
    IF "get_repo_remote_url" \in env.failing THEN UrlNone ELSE env.remote

\* the fields __init__ sets before it touches the directory (lines 40-46)
Repository_fields(model_dir, auth_token, env) ==
    [exists |-> TRUE, model_dir |-> model_dir, model_base_dir |-> dirname(model_dir),
     model_repo_name |-> basename(model_dir),
     auth_token |-> IF Truthy(auth_token) THEN auth_token ELSE env.saved]

\* the invocations __init__ makes from the clone on (lines 60-70)
Repository_init_steps(self, url, revision, env) ==
    <<clone(self.model_base_dir, self.auth_token, url, self.model_repo_name, revision),
      is_lfs_installed>>
    \o (IF env.lfs THEN <<git_lfs_install(self.model_dir)>> ELSE <<>>)
    \o <<add_user_info(self.model_base_dir, self.model_repo_name)>>
    \o (IF Truthy(self.auth_token)
        THEN <<config_auth_token(self.model_dir, self.auth_token)>> ELSE <<>>)

\* whether __init__ returns at line 59 without cloning
Repository_skip_Never(dirState, url, env) == FALSE

Repository_skip_UnknownRemote(dirState, url, env) ==
    /\ listdir(makedirs(dirState))
    /\ LET remote_url == remove_token_from_url(Repository_get_remote_url(env))
       IN ~UrlTruthy(remote_url) \/ remote_url = url

Repository_skip(dirState, url, env) ==
    /\ listdir(makedirs(dirState))
    /\ LET remote_url == remove_token_from_url(Repository_get_remote_url(env))
       IN UrlTruthy(remote_url) /\ remote_url = url

\* Repository.__init__: the object, the invocations made and the exception raised
Repository__init__(model_dir, clone_from, revision, auth_token, dirState, env) ==
    LET self == Repository_fields(model_dir, auth_token, env)
        url == _get_model_id_url(clone_from)
        check == IF listdir(makedirs(dirState))
                 THEN <<[call |-> get_repo_remote_url(self.model_dir),
                         ok |-> "get_repo_remote_url" \notin env.failing]>>
                 ELSE <<>>
        first == <<[call |-> is_lfs_installed, ok |-> TRUE]>> \o check
        log == IF Repository_skip(dirState, url, env)
               THEN first
               ELSE first \o Exec(Repository_init_steps(self, url, revision, env),
                                  env.failing)
    IN [self |-> self, url |-> url, skipped |-> Repository_skip(dirState, url, env),
        calls |-> log,
        raised |-> IF \E i \in 1..Len(log) :
                        ~log[i].ok /\ log[i].call.op # "get_repo_remote_url"
                   THEN "GitError" ELSE "None"]

\* the invocations push makes once its checks have passed (lines 106-119)
Repository_push_steps_AddFirst(self, commit_message, branch, env) ==
    <<config_auth_token(self.model_dir, self.auth_token),
      add_user_info(self.model_base_dir, self.model_repo_name),
      get_repo_remote_url(self.model_dir),
      add(self.model_dir, TRUE),
      pull(self.model_dir),
      commit(self.model_dir, commit_message),
      push(self.model_dir, self.auth_token, env.remote, branch, branch)>>

Repository_push_steps(self, commit_message, branch, env) ==
    <<config_auth_token(self.model_dir, self.auth_token),
      add_user_info(self.model_base_dir, self.model_repo_name),
      get_repo_remote_url(self.model_dir),
      pull(self.model_dir),
      add(self.model_dir, TRUE),
      commit(self.model_dir, commit_message),
      push(self.model_dir, self.auth_token, env.remote, branch, branch)>>

\* Repository.push with the token check after the first configuration call
Repository_push_LateLogin(self, commit_message, branch, force, env) ==
    IF commit_message = PyNone \/ ~isinstance(commit_message, "str")
    THEN [calls |-> <<>>, raised |-> "InvalidParameter"]
    ELSE IF ~isinstance(force, "bool")
    THEN [calls |-> <<>>, raised |-> "InvalidParameter"]
    ELSE IF ~Truthy(self.auth_token)
    THEN [calls |-> <<[call |-> config_auth_token(self.model_dir, self.auth_token),
                       ok |-> TRUE]>>,
          raised |-> "NotLoginException"]
    ELSE LET log == Exec(Repository_push_steps(self, commit_message, branch, env),
                         env.failing)
         IN [calls |-> log, raised |-> Outcome(log)]

\* Repository.push with the token check before the force check
Repository_push_LoginFirst(self, commit_message, branch, force, env) ==
    IF commit_message = PyNone \/ ~isinstance(commit_message, "str")
    THEN [calls |-> <<>>, raised |-> "InvalidParameter"]
    ELSE IF ~Truthy(self.auth_token)
    THEN [calls |-> <<>>, raised |-> "NotLoginException"]
    ELSE IF ~isinstance(force, "bool")
    THEN [calls |-> <<>>, raised |-> "InvalidParameter"]
    ELSE LET log == Exec(Repository_push_steps(self, commit_message, branch, env),
                         env.failing)
         IN [calls |-> log, raised |-> Outcome(log)]

\* Repository.push with no check of the message
Repository_push_NoMessageCheck(self, commit_message, branch, force, env) ==
    IF ~isinstance(force, "bool")
    THEN [calls |-> <<>>, raised |-> "InvalidParameter"]
    ELSE IF ~Truthy(self.auth_token)
    THEN [calls |-> <<>>, raised |-> "NotLoginException"]
    ELSE LET log == Exec(Repository_push_steps(self, commit_message, branch, env),
                         env.failing)
         IN [calls |-> log, raised |-> Outcome(log)]

\* Repository.push: the invocations made and the exception raised
Repository_push(self, commit_message, branch, force, env) ==
    IF commit_message = PyNone \/ ~isinstance(commit_message, "str")
    THEN [calls |-> <<>>, raised |-> "InvalidParameter"]
    ELSE IF ~isinstance(force, "bool")
    THEN [calls |-> <<>>, raised |-> "InvalidParameter"]
    ELSE IF ~Truthy(self.auth_token)
    THEN [calls |-> <<>>, raised |-> "NotLoginException"]
    ELSE LET log == Exec(Repository_push_steps(self, commit_message, branch, env),
                         env.failing)
         IN [calls |-> log, raised |-> Outcome(log)]

(* ------------------------- DatasetRepository ---------------------------- *)
\* DatasetRepository.__init__: the fields it sets; it makes no invocation
DatasetRepository__init__(repo_work_dir, dataset_id, revision, auth_token, env) ==
    [exists |-> TRUE, dataset_id |-> dataset_id, repo_work_dir |-> repo_work_dir,
     repo_base_dir |-> dirname(repo_work_dir), repo_name |-> basename(repo_work_dir),
     revision |-> revision,
     auth_token |-> IF Truthy(auth_token) THEN auth_token ELSE env.saved,
     repo_url |-> _get_repo_url(dataset_id)]

\* DatasetRepository._get_remote_url: a GitError of the query becomes None
DatasetRepository_get_remote_url(env) ==
    IF "get_repo_remote_url" \in env.failing THEN UrlNone ELSE env.remote

\* DatasetRepository.clone that clones a fixed revision, not the object's
DatasetRepository_clone_steps_FirstRevision(self) ==
    <<clone(self.repo_base_dir, self.auth_token, self.repo_url, self.repo_name,
            "r1")>>

\* the invocation clone makes when it does not skip (lines 171-172)
DatasetRepository_clone_steps(self) ==
    <<clone(self.repo_base_dir, self.auth_token, self.repo_url, self.repo_name,
            self.revision)>>

\* DatasetRepository.clone: the invocations made, the exception raised, the value returned
DatasetRepository_clone(self, dirState, env) ==
    IF dirState = "absent"
    THEN [calls |-> <<>>, raised |-> "FileNotFoundError", ret |-> UrlNone]
    ELSE
    LET check == IF listdir(dirState)
                 THEN <<[call |-> get_repo_remote_url(self.repo_work_dir),
                         ok |-> "get_repo_remote_url" \notin env.failing]>>
                 ELSE <<>>
        remote_url == remove_token_from_url(DatasetRepository_get_remote_url(env))
        skip == listdir(dirState) /\ UrlTruthy(remote_url) /\ remote_url = self.repo_url
        made == Exec(DatasetRepository_clone_steps(self), env.failing)
    IN IF skip
       THEN [calls |-> check, raised |-> "None", ret |-> UrlStr(<<>>)]
       ELSE [calls |-> check \o made, raised |-> Outcome(made),
             ret |-> IF Raised(made) THEN UrlNone ELSE UrlStr(self.repo_work_dir)]

\* the invocations push makes once its checks have passed (lines 199-211)
DatasetRepository_push_steps(self, commit_message, branch, env) ==
    <<config_auth_token(self.repo_work_dir, self.auth_token),
      add_user_info(self.repo_base_dir, self.repo_name),
      get_repo_remote_url(self.repo_work_dir),
      pull(self.repo_work_dir),
      add(self.repo_work_dir, TRUE),
      commit(self.repo_work_dir, commit_message),
      push(self.repo_work_dir, self.auth_token, env.remote, branch, branch)>>

\* DatasetRepository.push: the invocations made and the exception raised
DatasetRepository_push(self, commit_message, branch, force, env) ==
    IF commit_message = PyNone \/ ~isinstance(commit_message, "str")
    THEN [calls |-> <<>>, raised |-> "InvalidParameter"]
    ELSE IF ~isinstance(force, "bool")
    THEN [calls |-> <<>>, raised |-> "InvalidParameter"]
    ELSE IF ~Truthy(self.auth_token)
    THEN [calls |-> <<>>, raised |-> "NotLoginException"]
    ELSE LET log == Exec(DatasetRepository_push_steps(self, commit_message, branch, env),
                         env.failing)
         IN [calls |-> log, raised |-> Outcome(log)]

(* ------------------------------ actions --------------------------------- *)
Init ==
    /\ repo = NoRepo
    /\ ds = NoDs
    /\ fs \in DirStates
    /\ calls = <<>>
    /\ op = [name |-> "none"]

Idle == op.name = "none"

(* The environment of a method is recorded by what it actually did: the     *)
(* operations in `failing` are exactly those that raised, and `remote` is   *)
(* an answer only when the remote-URL query was made and returned.          *)
Answered(env, log, remotes) ==
    /\ env.failing = {log[i].call.op : i \in {j \in 1..Len(log) : ~log[j].ok}}
    /\ IF \E i \in 1..Len(log) : log[i].call.op = "get_repo_remote_url" /\ log[i].ok
       THEN env.remote \in remotes
       ELSE env.remote = UrlNone

\* Repository(model_dir, clone_from, revision, auth_token)
RepositoryInit ==
    /\ Idle
    /\ \E clone_from \in Ids, revision \in Revisions, auth_token \in ArgTokens,
       saved \in SavedTokens, remote \in ModelRemotes \cup {UrlNone}, lfs \in BOOLEAN,
       failing \in Failing(InitOps) :
        LET env == [saved |-> saved, remote |-> remote, lfs |-> lfs, failing |-> failing]
            r == Repository__init__(Dir, clone_from, revision, auth_token, fs, env)
        IN /\ Answered(env, r.calls, ModelRemotes)
           /\ repo' = IF r.raised = "None" THEN r.self ELSE repo
           /\ fs' = after_clone(makedirs(fs), r.calls)
           /\ calls' = r.calls
           /\ op' = [name |-> "Repository.__init__", clone_from |-> clone_from,
                     revision |-> revision, auth_token |-> auth_token, dirState |-> fs,
                     env |-> env, self |-> r.self, raised |-> r.raised]
           /\ UNCHANGED ds

\* repo.push(commit_message, branch, force)
RepositoryPush ==
    /\ Idle
    /\ repo.exists
    /\ \E commit_message \in Messages, branch \in Revisions, force \in Forces,
          remote \in ModelRemotes \cup {UrlNone}, failing \in Failing(PushOps) :
        LET env == [remote |-> remote, failing |-> failing]
            r == Repository_push(repo, commit_message, branch, force, env)
        IN /\ Answered(env, r.calls, ModelRemotes)
           /\ calls' = r.calls
           /\ op' = [name |-> "Repository.push", commit_message |-> commit_message,
                     branch |-> branch, force |-> force, env |-> env, self |-> repo,
                     raised |-> r.raised]
           /\ UNCHANGED <<repo, ds, fs>>

\* DatasetRepository(repo_work_dir, dataset_id, revision, auth_token)
DatasetInit ==
    /\ Idle
    /\ \E dataset_id \in Ids, revision \in Revisions, auth_token \in ArgTokens,
       saved \in SavedTokens :
        LET env == [saved |-> saved]
        IN /\ ds' = DatasetRepository__init__(Dir, dataset_id, revision, auth_token, env)
           /\ fs' = makedirs(fs)
           /\ calls' = <<>>
           /\ op' = [name |-> "DatasetRepository.__init__", dataset_id |-> dataset_id,
                     revision |-> revision, auth_token |-> auth_token, dirState |-> fs,
                     env |-> env, self |-> ds', raised |-> "None"]
           /\ UNCHANGED repo

\* ds.clone()
DatasetClone ==
    /\ Idle
    /\ ds.exists
    /\ \E remote \in DatasetRemotes \cup {UrlNone}, failing \in Failing(CloneOps) :
        LET env == [remote |-> remote, failing |-> failing]
            r == DatasetRepository_clone(ds, fs, env)
        IN /\ Answered(env, r.calls, DatasetRemotes)
           /\ calls' = r.calls
           /\ op' = [name |-> "DatasetRepository.clone", dirState |-> fs, env |-> env,
                     self |-> ds, raised |-> r.raised, ret |-> r.ret]
           /\ fs' = after_clone(fs, r.calls)
           /\ UNCHANGED <<repo, ds>>

\* ds.push(commit_message, branch, force)
DatasetPush ==
    /\ Idle
    /\ ds.exists
    /\ \E commit_message \in Messages, branch \in Revisions, force \in Forces,
          remote \in DatasetRemotes \cup {UrlNone}, failing \in Failing(PushOps) :
        LET env == [remote |-> remote, failing |-> failing]
            r == DatasetRepository_push(ds, commit_message, branch, force, env)
        IN /\ Answered(env, r.calls, DatasetRemotes)
           /\ calls' = r.calls
           /\ op' = [name |-> "DatasetRepository.push", commit_message |-> commit_message,
                     branch |-> branch, force |-> force, env |-> env, self |-> ds,
                     raised |-> r.raised]
           /\ UNCHANGED <<repo, ds, fs>>

\* files appear in or vanish from the local directory outside the facades
Environment ==
    /\ Idle
    /\ fs' \in DirStates \ {fs}
    /\ UNCHANGED <<repo, ds, calls, op>>

\* the caller takes the outcome of the method: its value or its exception
Return ==
    /\ ~Idle
    /\ op' = [name |-> "none"]
    /\ calls' = <<>>
    /\ UNCHANGED <<repo, ds, fs>>

Next ==
    \/ RepositoryInit
    \/ RepositoryPush
    \/ DatasetInit
    \/ DatasetClone
    \/ DatasetPush
    \/ Environment
    \/ Return

Spec == Init /\ [][Next]_vars

(* ------------------------ vocabulary of the claims ----------------------- *)
IsPush == op.name \in {"Repository.push", "DatasetRepository.push"}
OpNames(log) == [i \in 1..Len(log) |-> log[i].call.op]
Made(name) == SelectSeq(calls, LAMBDA c : c.call.op = name)
\* the local directory the facade of the latest method works on
WorkDir == IF op.name = "Repository.push" THEN op.self.model_dir ELSE op.self.repo_work_dir
PushSequence == <<"config_auth_token", "add_user_info", "get_repo_remote_url", "pull", "add",
                  "commit", "push">>
GitSteps == {"pull", "add", "commit", "push"}
QueryFailed == "get_repo_remote_url" \in op.env.failing

(* C1: a Push that succeeds has invoked pull, add (all files), commit and   *)
(* push exactly once each, in that order, has handed its commit message to  *)
(* commit unchanged and its branch to push as both the local and the remote *)
(* branch.                                                                  *)
C1_PushSequence ==
    (IsPush /\ op.raised = "None") =>
        /\ OpNames(SelectSeq(calls, LAMBDA c : c.call.op \in GitSteps))
               = <<"pull", "add", "commit", "push">>
        /\ Made("pull")[1].call = pull(WorkDir)
        /\ Made("add")[1].call = add(WorkDir, TRUE)
        /\ Made("commit")[1].call = commit(WorkDir, op.commit_message)
        /\ Made("push")[1].call.repo_dir = WorkDir
        /\ Made("push")[1].call.local_branch = op.branch
        /\ Made("push")[1].call.remote_branch = op.branch

C1_Witness ==
    /\ op.name = "Repository.push"
    /\ op.raised = "None"
    /\ op.commit_message = PyStr("fix")
    /\ op.branch = "r2"
    /\ Len(Made("push")) = 1

(* C2, as claimed: Push("") and Push(None) both fail with a parameter-      *)
(* validation error, whatever the token, and invoke none of pull, add,      *)
(* commit, push.                                                            *)
C2_EmptyAndNoneRejected ==
    (IsPush /\ op.commit_message \in {PyNone, PyStr("")}) =>
        /\ op.raised = "InvalidParameter"
        /\ \A i \in 1..Len(calls) : calls[i].call.op \notin GitSteps

(* C2, amended: Push(None) (any message that is not a string) fails with a  *)
(* parameter-validation error, whatever the token, and makes no invocation. *)
(* Push("") passes the message check: it is rejected for its parameters     *)
(* only when force is not boolean, fails with an authentication error when  *)
(* no token is available, and otherwise starts the push sequence, handing   *)
(* the empty message to commit.                                             *)
C2_NoneRejectedEmptyAccepted ==
    /\ (IsPush /\ ~isinstance(op.commit_message, "str")) =>
           (op.raised = "InvalidParameter" /\ calls = <<>>)
    /\ (IsPush /\ op.commit_message = PyStr("")) =>
           /\ (op.raised = "InvalidParameter") <=> ~isinstance(op.force, "bool")
           /\ (op.raised = "NotLoginException") <=>
                  (isinstance(op.force, "bool") /\ ~Truthy(op.self.auth_token))
           /\ (isinstance(op.force, "bool") /\ Truthy(op.self.auth_token)) =>
                  (calls # <<>> /\ calls[1].call.op = "config_auth_token")
           /\ \A i \in 1..Len(calls) :
                  calls[i].call.op = "commit" => calls[i].call.message = PyStr("")

C2_Witness ==
    /\ IsPush
    /\ op.commit_message = PyNone
    /\ isinstance(op.force, "bool")
    /\ Truthy(op.self.auth_token)
    /\ op.raised = "InvalidParameter"

(* C3: a Repository construction that completes has configured the        *)
(* commit-author metadata and, when a token is present, the token in the    *)
(* remote URL, also when it skipped the clone because the directory's       *)
(* stripped remote URL already equals the target URL.                       *)
C3_AlwaysConfigured ==
    (op.name = "Repository.__init__" /\ op.raised = "None") =>
        /\ Len(Made("add_user_info")) = 1
        /\ Truthy(op.self.auth_token) =>
               /\ Len(Made("config_auth_token")) = 1
               /\ Made("config_auth_token")[1].call
                      = config_auth_token(op.self.model_dir, op.self.auth_token)

(* C4: when the local directory is non-empty and its remote URL, once the   *)
(* token is stripped, equals the target URL, Repository construction and    *)
(* DatasetRepository.clone make no clone invocation and clone returns the   *)
(* empty string, whatever revision was asked for.                           *)
C4_SkipWhenRemoteMatches ==
    /\ (/\ op.name = "Repository.__init__"
        /\ op.dirState = "nonempty"
        /\ ~QueryFailed
        /\ remove_token_from_url(op.env.remote) = _get_model_id_url(op.clone_from)) =>
           (Made("clone") = <<>> /\ op.raised = "None")
    /\ (/\ op.name = "DatasetRepository.clone"
        /\ op.dirState = "nonempty"
        /\ ~QueryFailed
        /\ remove_token_from_url(op.env.remote) = _get_repo_url(op.self.dataset_id)) =>
           (Made("clone") = <<>> /\ op.raised = "None" /\ op.ret = UrlStr(<<>>))

C4_Witness ==
    /\ op.name = "DatasetRepository.clone"
    /\ op.dirState = "nonempty"
    /\ op.self.revision = "r2"
    /\ op.env.remote = WithToken(_get_repo_url(op.self.dataset_id), "tokA")
    /\ ~QueryFailed
    /\ op.ret = UrlStr(<<>>)

(* C5, as claimed: for an empty or absent local directory, Repository      *)
(* construction and DatasetRepository.clone each make exactly one clone     *)
(* invocation, for the target URL and the given revision, and clone then    *)
(* returns the working directory.                                           *)
C5_CloneOnceWhenEmptyOrAbsent ==
    /\ (op.name = "Repository.__init__" /\ op.dirState \in {"absent", "empty"}) =>
           /\ Len(Made("clone")) = 1
           /\ Made("clone")[1].call
                  = clone(dirname(Dir), op.self.auth_token, _get_model_id_url(op.clone_from),
                          basename(Dir), op.revision)
    /\ (op.name = "DatasetRepository.clone" /\ op.dirState \in {"absent", "empty"}) =>
           /\ Len(Made("clone")) = 1
           /\ Made("clone")[1].call
                  = clone(dirname(Dir), op.self.auth_token,
                          _get_repo_url(op.self.dataset_id), basename(Dir),
                          op.self.revision)
           /\ op.raised = "None"
           /\ op.ret = UrlStr(Dir)

(* C5, amended: for an empty or absent local directory, Repository          *)
(* construction makes exactly one clone invocation, for the target URL and  *)
(* the given revision.  The dataset constructor creates an absent           *)
(* directory; clone on an empty directory makes exactly one clone           *)
(* invocation, for the target URL and the revision given at construction,   *)
(* and returns the working directory when that invocation returns, while    *)
(* its GitError leaves clone when it raises.  clone on a directory that is  *)
(* absent (removed since construction) fails on listing it and makes no     *)
(* invocation.                                                              *)
C5_CloneOnceWhenEmpty ==
    /\ (op.name = "Repository.__init__" /\ op.dirState \in {"absent", "empty"}) =>
           /\ Len(Made("clone")) = 1
           /\ Made("clone")[1].call
                  = clone(dirname(Dir), op.self.auth_token, _get_model_id_url(op.clone_from),
                          basename(Dir), op.revision)
    /\ (op.name = "DatasetRepository.__init__") => fs # "absent"
    /\ (op.name = "DatasetRepository.clone" /\ op.dirState = "empty") =>
           /\ Len(Made("clone")) = 1
           /\ Made("clone")[1].call
                  = clone(dirname(Dir), op.self.auth_token,
                          _get_repo_url(op.self.dataset_id), basename(Dir),
                          op.self.revision)
           /\ Made("clone")[1].ok => (op.raised = "None" /\ op.ret = UrlStr(Dir))
           /\ ~Made("clone")[1].ok => (op.raised = "GitError" /\ op.ret = UrlNone)
    /\ (op.name = "DatasetRepository.clone" /\ op.dirState = "absent") =>
           (op.raised = "FileNotFoundError" /\ calls = <<>>)

C5_Witness ==
    /\ op.name = "DatasetRepository.clone"
    /\ op.dirState = "empty"
    /\ op.self.revision = "r2"
    /\ Len(Made("clone")) = 1
    /\ op.ret = UrlStr(Dir)

(* C6: a Push with a string message and a boolean force on a facade that    *)
(* holds no token fails with the authentication error and makes no          *)
(* invocation at all.                                                       *)
C6_NoTokenNoCalls ==
    (/\ IsPush
     /\ isinstance(op.commit_message, "str")
     /\ isinstance(op.force, "bool")
     /\ ~Truthy(op.self.auth_token)) =>
        (op.raised = "NotLoginException" /\ calls = <<>>)

C6_Witness ==
    /\ op.name = "Repository.push"
    /\ op.commit_message = PyStr("fix")
    /\ op.force = PyBool(TRUE)
    /\ op.self.auth_token = PyNone
    /\ op.raised = "NotLoginException"

(* C7: a Push with a string message and a force that is not boolean fails   *)
(* with the parameter-validation error and makes no invocation, with or     *)
(* without a token: it never ends in the authentication error.              *)
C7_ForceCheckedBeforeToken ==
    (IsPush /\ isinstance(op.commit_message, "str") /\ ~isinstance(op.force, "bool")) =>
        (op.raised = "InvalidParameter" /\ calls = <<>>)

C7_Witness ==
    /\ op.name = "Repository.push"
    /\ op.commit_message = PyStr("fix")
    /\ op.force = PyStr("yes")
    /\ ~Truthy(op.self.auth_token)
    /\ op.raised = "InvalidParameter"

(* C8: the force flag of a Push is passed through to the underlying push    *)
(* invocation: the push invocation carries the force value the Push was     *)
(* given (and that value is the only thing force changes).                  *)
C8_ForcePassedThrough ==
    IsPush =>
        \A i \in 1..Len(calls) :
            calls[i].call.op = "push" =>
                ("force" \in DOMAIN calls[i].call /\ calls[i].call.force = op.force)

(* C9: when the directory is non-empty and the remote-URL query raises      *)
(* GitError during the already-cloned check, the error does not leave the   *)
(* method: the clone invocation for the target URL is made next.            *)
C9_QueryFailureForcesClone ==
    /\ (op.name = "Repository.__init__" /\ op.dirState = "nonempty" /\ QueryFailed) =>
           /\ \E i \in 1..(Len(calls) - 1) :
                  /\ calls[i].call.op = "get_repo_remote_url" /\ ~calls[i].ok
                  /\ calls[i + 1].call.op = "clone"
                  /\ calls[i + 1].call.url = _get_model_id_url(op.clone_from)
           /\ op.raised # "None" =>
                  \E j \in 1..Len(calls) :
                      ~calls[j].ok /\ calls[j].call.op # "get_repo_remote_url"
    /\ (op.name = "DatasetRepository.clone" /\ op.dirState = "nonempty" /\ QueryFailed) =>
           /\ \E i \in 1..(Len(calls) - 1) :
                  /\ calls[i].call.op = "get_repo_remote_url" /\ ~calls[i].ok
                  /\ calls[i + 1].call.op = "clone"
                  /\ calls[i + 1].call.url = _get_repo_url(op.self.dataset_id)
           /\ op.raised # "None" =>
                  \E j \in 1..Len(calls) :
                      ~calls[j].ok /\ calls[j].call.op # "get_repo_remote_url"

C9_Witness ==
    /\ op.name = "Repository.__init__"
    /\ op.dirState = "nonempty"
    /\ QueryFailed
    /\ Len(Made("clone")) = 1
    /\ Made("clone")[1].ok
    /\ op.raised = "None"

(* C10: within one Push an invocation that raises is the last one made and  *)
(* its error is the outcome of the Push; the invocations made are an        *)
(* initial part of the fixed sequence, none made twice; push is made only   *)
(* after pull, add and commit of the same Push have returned.               *)
C10_FailureEndsPush ==
    IsPush =>
        /\ \A i \in 1..Len(calls) :
               ~calls[i].ok => (i = Len(calls) /\ op.raised = "GitError")
        /\ Len(calls) <= Len(PushSequence)
        /\ OpNames(calls) = SubSeq(PushSequence, 1, Len(calls))
        /\ Made("push") # <<>> =>
               \A name \in {"pull", "add", "commit"} :
                   Len(Made(name)) = 1 /\ Made(name)[1].ok

C10_Witness ==
    /\ op.name = "DatasetRepository.push"
    /\ op.raised = "GitError"
    /\ Len(calls) = 6
    /\ calls[6].call.op = "commit"
    /\ ~calls[6].ok
    /\ Made("push") = <<>>

====
